---- MODULE Spec2Model ----
(***************************************************************************)
(* Quota and rate-limiting subsystem of the AI-detection backend.          *)
(*                                                                         *)
(* Part I  : the ephemeral throttle store (Redis), RateLimiterRepository,  *)
(*           RateLimiterService.check_and_increment and the FastAPI        *)
(*           dependency that wraps it.                                     *)
(* Part II : the durable quota store (PostgreSQL, READ COMMITTED), the     *)
(*           per-request SQLAlchemy session, AIDetectionRepository and     *)
(*           AIDetectionService.detect_from_text.                          *)
(* Part III: a detection request from its transport (HTTP endpoint or      *)
(*           chat-bot handler) through the rate-limit gate and the         *)
(*           orchestrator to the end of its unit of work.                  *)
(* Part IV : the inference and extraction collaborators: mapping of the    *)
(*           inference response, error classes of a failed extraction.     *)
(*                                                                         *)
(* Time is the wall clock in whole seconds since an hour boundary.  Every  *)
(* await on the store is a step of its own, so calls of different requests *)
(* interleave between store operations and the clock may advance between   *)
(* any two steps.                                                          *)
(***************************************************************************)
EXTENDS Integers, Sequences, FiniteSets, TLC

VARIABLES now, ticks,
          redis, incrs, pc, key, pre, post, exc, seen, writes, failed,
          crossed, calls, failures, resets,
          user_limits, history, qpc, quser, text_length, obj, base, txrow,
          thist, result, loaded, checkedAt, error, incremented, qcalls, qticks,
          d0, incCommitted, resetFired, source, transport, gated,
          label, ai_probability, detection, extractor, cause, surfaced

\* ------------------------------------------------------------------------
\* Bounds of the model
\* ------------------------------------------------------------------------
NumProcs == 2
MaxCalls == 2
SeqMaxCalls == 11
MaxTicks == 2
ConcTicks == 1
MaxFailures == 1
MaxResets == 1
StartTime == 3539

NumReqs == 2
MaxRequests == 2
QMaxTicks == 1

Procs == 1..NumProcs
Reqs == 1..NumReqs
TextLengths == {49, 50}
InitUsage == {<<0, 0>>, <<99, 99>>, <<99, 999>>, <<100, 100>>}
Users == {"u1"}
TickSteps == {1, 60}
InitMinuteCounts == {0, 9}
InitHourExtra == {0, 90}

\* ------------------------------------------------------------------------
\* Configuration (core/redis_config.py)
\* ------------------------------------------------------------------------
RATE_LIMIT_ENABLED == TRUE
RATE_LIMIT_PER_MINUTE == 10
RATE_LIMIT_PER_HOUR == 100

MINUTE == "minute"
HOUR == "hour"
DAY == "day"

Max(a, b) == IF a >= b THEN a ELSE b

\* ------------------------------------------------------------------------
\* Redis: key -> [val, exp]; exp = NoExpiry for a persistent key.  A key
\* whose expiry instant has been reached is gone.
\* ------------------------------------------------------------------------
NoExpiry == -1

RedisGet(store, k) == IF k \in DOMAIN store THEN <<store[k].val>> ELSE <<>>

RedisIncr(store, k) ==
    IF k \in DOMAIN store
    THEN [store EXCEPT ![k].val = @ + 1]
    ELSE [x \in DOMAIN store \cup {k} |->
            IF x = k THEN [val |-> 1, exp |-> NoExpiry] ELSE store[x]]

RedisExpire(store, k, seconds, t) ==
    IF k \in DOMAIN store THEN [store EXCEPT ![k].exp = t + seconds] ELSE store

RedisDelete(store, ks) == [x \in DOMAIN store \ ks |-> store[x]]

RedisPurge(store, t) ==
    [x \in {y \in DOMAIN store : store[y].exp = NoExpiry \/ store[y].exp > t}
        |-> store[x]]

\* ------------------------------------------------------------------------
\* RateLimiterRepository helpers
\* ------------------------------------------------------------------------
\* strftime("%Y%m%d%H%M") and friends: two instants get the same text
\* exactly when they lie in the same calendar minute / hour / day.
TimeWindow(period, t) ==
    IF period = MINUTE THEN t \div 60
    ELSE IF period = HOUR THEN t \div 3600
    ELSE t \div 86400

GetRateLimitKey(user_id, period, t) == <<user_id, period, TimeWindow(period, t)>>

GetTTLForPeriod_minuteForAll(period) == 60

GetTTLForPeriod(period) ==
    IF period = MINUTE THEN 60
    ELSE IF period = HOUR THEN 3600
    ELSE 86400

GetLimitForPeriod_swapped(period) ==
    IF period = MINUTE THEN RATE_LIMIT_PER_HOUR
    ELSE IF period = HOUR THEN RATE_LIMIT_PER_MINUTE
    ELSE RATE_LIMIT_PER_HOUR * 24

GetLimitForPeriod(period) ==
    IF period = MINUTE THEN RATE_LIMIT_PER_MINUTE
    ELSE IF period = HOUR THEN RATE_LIMIT_PER_HOUR
    ELSE RATE_LIMIT_PER_HOUR * 24

\* (now + one period) truncated to the period
GetResetTime(period, t) ==
    IF period = MINUTE THEN ((t + 60) \div 60) * 60
    ELSE IF period = HOUR THEN ((t + 3600) \div 3600) * 3600
    ELSE ((t + 86400) \div 86400) * 86400

NoInfo == [limit |-> 0, remaining |-> 0, reset_at |-> 0, period |-> "none"]
NoStatus == [is_allowed |-> FALSE, minute_allowed |-> FALSE,
             hour_allowed |-> FALSE,
             minute_limit |-> NoInfo, hour_limit |-> NoInfo]
\* raised_at (ghost): the clock reading retry_after was computed from
NoExc == [retry_after |-> 0, limit_info |-> NoInfo, raised_at |-> 0]
NoKey == <<"", "none", 0>>
NoSeen == [minute |-> -1, hour |-> -1, minute_in |-> FALSE, hour_in |-> FALSE]

\* check_rate_limit after the key was derived: k is the key, t the instant
\* at which the answer of GET is processed
CheckRateLimit_inclusive(store, k, period, t) ==
    LET limit == GetLimitForPeriod(period)
        current_str == RedisGet(store, k)
        current == IF current_str = <<>> THEN 0 ELSE current_str[1]
    IN [is_allowed |-> current <= limit,
        info |-> [limit |-> limit,
                  remaining |-> Max(0, limit - current),
                  reset_at |-> GetResetTime(period, t),
                  period |-> period]]

CheckRateLimit(store, k, period, t) ==
    LET limit == GetLimitForPeriod(period)
        current_str == RedisGet(store, k)
        current == IF current_str = <<>> THEN 0 ELSE current_str[1]
    IN [is_allowed |-> current < limit,
        info |-> [limit |-> limit,
                  remaining |-> Max(0, limit - current),
                  reset_at |-> GetResetTime(period, t),
                  period |-> period]]

\* get_rate_limit_status when both reads are answered at the same instant
GetRateLimitStatus(store, user_id, t) ==
    LET m == CheckRateLimit(store, GetRateLimitKey(user_id, MINUTE, t), MINUTE, t)
        h == CheckRateLimit(store, GetRateLimitKey(user_id, HOUR, t), HOUR, t)
    IN [is_allowed |-> m.is_allowed /\ h.is_allowed,
        minute_allowed |-> m.is_allowed,
        hour_allowed |-> h.is_allowed,
        minute_limit |-> m.info,
        hour_limit |-> h.info]

\* the branch of check_and_increment taken on a status that is not allowed
LimitingInfo_hourFirst(status) ==
    IF status.hour_limit.remaining = 0
    THEN status.hour_limit
    ELSE status.minute_limit

LimitingInfo(status) ==
    IF status.minute_limit.remaining = 0
    THEN status.minute_limit
    ELSE status.hour_limit

RetryAfter_noFloor(limit_info, t) == limit_info.reset_at - t

RetryAfter(limit_info, t) == Max(1, limit_info.reset_at - t)

\* check_rate_limit_dependency: what the gate does with the way
\* check_and_increment ended
DependencyOutcome_failClosed(ending) ==
    IF ending = "status" THEN "allowed" ELSE "rejected"

DependencyOutcome(ending) ==
    IF ending = "status" THEN "allowed"
    ELSE IF ending = "RateLimitExceeded" THEN "rejected"
    ELSE "fail_open"

Terminal == {"allowed", "rejected", "fail_open"}
GetSteps == {"pre_minute", "pre_hour", "post_minute", "post_hour"}
WriteSteps == {"incr_minute", "expire_minute", "incr_hour", "expire_hour"}

\* ghost: number of INCRs that took effect on a key since it was last deleted
IncrsOf(k) == IF k \in DOMAIN incrs THEN incrs[k] ELSE 0
BumpIncrs(k) ==
    [x \in DOMAIN incrs \cup {k} |-> IF x = k THEN IncrsOf(k) + 1 ELSE incrs[x]]

rlvars == <<redis, incrs, pc, key, pre, post, exc, seen, writes, failed,
            crossed, calls, failures, resets>>
qvars == <<user_limits, history, qpc, quser, text_length, obj, base, txrow,
           thist, result, loaded, checkedAt, error, incremented, qcalls,
           qticks, d0, incCommitted, resetFired,
          source, transport, gated>>
\* the collaborators' last call: what the inference service answered and
\* what it was mapped to, how an extraction ended and what was raised
cvars == <<label, ai_probability, detection, extractor, cause, surfaced>>

vars == <<now, ticks, rlvars, qvars, cvars>>

\* ========================================================================
\* Part II: durable quota store, request-scoped session, quota manager and
\* detection orchestrator
\* ========================================================================
DAY_SECONDS == 86400
MONTH_DAYS == 30
DEFAULT_DAILY_LIMIT == 100
DEFAULT_MONTHLY_LIMIT == 1000
MIN_TEXT_LENGTH == 50
QTickSteps == {DAY_SECONDS, MONTH_DAYS * DAY_SECONDS}

\* a UserLimit row; user_id = "" stands for None (no row, no object)
NoRow == [user_id |-> "", daily_limit |-> 0, daily_used |-> 0,
          daily_reset_at |-> 0, monthly_limit |-> 0, monthly_used |-> 0,
          monthly_reset_at |-> 0, total_requests |-> 0, is_premium |-> FALSE]
Columns == {"user_id", "daily_limit", "daily_used", "daily_reset_at",
            "monthly_limit", "monthly_used", "monthly_reset_at",
            "total_requests", "is_premium"}
NoResult == [can_request |-> FALSE, user_limit |-> NoRow]

\* the row get_or_create_user_limit builds for a user that has none
NewUserLimit(user_id, t) ==
    [user_id |-> user_id,
     daily_limit |-> DEFAULT_DAILY_LIMIT,
     daily_used |-> 0,
     daily_reset_at |-> t + DAY_SECONDS,
     monthly_limit |-> DEFAULT_MONTHLY_LIMIT,
     monthly_used |-> 0,
     monthly_reset_at |-> t + MONTH_DAYS * DAY_SECONDS,
     total_requests |-> 0,
     is_premium |-> FALSE]

\* the deadline a daily reset that fires at time t sets
NextDailyReset_fromDeadline(user_limit, t) ==
    user_limit.daily_reset_at + DAY_SECONDS

NextDailyReset_now(user_limit, t) == t

NextDailyReset(user_limit, t) == t + DAY_SECONDS

\* check_and_reset_limits up to its flush: the object after the resets and
\* whether anything was reset
CheckAndResetLimits_keepsUsage(user_limit, t) ==
    LET daily == t >= user_limit.daily_reset_at
        monthly == t >= user_limit.monthly_reset_at
        a == IF daily
             THEN [user_limit EXCEPT !.daily_reset_at = NextDailyReset(user_limit, t)]
             ELSE user_limit
        b == IF monthly
             THEN [a EXCEPT !.monthly_used = 0,
                            !.monthly_reset_at = t + MONTH_DAYS * DAY_SECONDS]
             ELSE a
    IN [user_limit |-> b, updated |-> daily \/ monthly]

CheckAndResetLimits(user_limit, t) ==
    LET daily == t >= user_limit.daily_reset_at
        monthly == t >= user_limit.monthly_reset_at
        a == IF daily
             THEN [user_limit EXCEPT !.daily_used = 0,
                                     !.daily_reset_at = NextDailyReset(user_limit, t)]
             ELSE user_limit
        b == IF monthly
             THEN [a EXCEPT !.monthly_used = 0,
                            !.monthly_reset_at = t + MONTH_DAYS * DAY_SECONDS]
             ELSE a
    IN [user_limit |-> b, updated |-> daily \/ monthly]

\* the comparison of can_make_request
CanRequest_inclusive(user_limit) ==
    /\ user_limit.daily_used <= user_limit.daily_limit
    /\ user_limit.monthly_used <= user_limit.monthly_limit

CanRequest(user_limit) ==
    /\ user_limit.daily_used < user_limit.daily_limit
    /\ user_limit.monthly_used < user_limit.monthly_limit

BumpUsage_skipsTotal(user_limit) ==
    [user_limit EXCEPT !.daily_used = @ + 1,
                       !.monthly_used = @ + 1]

BumpUsage_dailyTwice(user_limit) ==
    [user_limit EXCEPT !.daily_used = @ + 2,
                       !.monthly_used = @ + 1,
                       !.total_requests = @ + 1]

\* the three "+= 1" of increment_usage
BumpUsage(user_limit) ==
    [user_limit EXCEPT !.daily_used = @ + 1,
                       !.monthly_used = @ + 1,
                       !.total_requests = @ + 1]

\* validate_text on a text of n characters after trimming
ValidateText(n) == n >= MIN_TEXT_LENGTH


\* ------------------------------------------------------------------------
\* Initial states
\* ------------------------------------------------------------------------
InitStore(m0, h0) ==
    LET km == GetRateLimitKey("u1", MINUTE, StartTime)
        kh == GetRateLimitKey("u1", HOUR, StartTime)
        ks == (IF m0 > 0 THEN {km} ELSE {}) \cup (IF h0 > 0 THEN {kh} ELSE {})
    IN [k \in ks |->
          IF k = km
          THEN [val |-> m0, exp |-> (StartTime \div 60) * 60 + 60]
          ELSE [val |-> h0, exp |-> 3600]]

\* no inference response and no extraction yet
NoLabel == "<none>"
NoValue == -1
NoDetection == [result |-> "", raised |-> FALSE]

CInitLocals ==
    /\ label = NoLabel
    /\ ai_probability = NoValue
    /\ detection = NoDetection
    /\ extractor = ""
    /\ cause = ""
    /\ surfaced = ""

InitLocals ==
    /\ now = StartTime
    /\ ticks = 0
    /\ pc = [p \in Procs |-> "idle"]
    /\ key = [p \in Procs |-> NoKey]
    /\ pre = [p \in Procs |-> NoStatus]
    /\ post = [p \in Procs |-> NoStatus]
    /\ exc = [p \in Procs |-> NoExc]
    /\ seen = [p \in Procs |-> NoSeen]
    /\ writes = [p \in Procs |-> 0]
    /\ failed = [p \in Procs |-> FALSE]
    /\ crossed = [p \in Procs |-> FALSE]
    /\ calls = 0
    /\ failures = 0
    /\ resets = 0

QInitLocals ==
    /\ qpc = [q \in Reqs |-> "idle"]
    /\ quser = [q \in Reqs |-> ""]
    /\ text_length = [q \in Reqs |-> 0]
    /\ obj = [q \in Reqs |-> NoRow]
    /\ base = [q \in Reqs |-> NoRow]
    /\ txrow = [q \in Reqs |-> NoRow]
    /\ thist = [q \in Reqs |-> 0]
    /\ result = [q \in Reqs |-> NoResult]
    /\ loaded = [q \in Reqs |-> NoRow]
    /\ checkedAt = [q \in Reqs |-> 0]
    /\ error = [q \in Reqs |-> ""]
    /\ incremented = [q \in Reqs |-> FALSE]
    /\ qcalls = 0
    /\ qticks = 0
    /\ incCommitted = 0
    /\ resetFired = FALSE
    /\ source = [q \in Reqs |-> ""]
    /\ transport = [q \in Reqs |-> ""]
    /\ gated = [q \in Reqs |-> FALSE]

QInitEmpty ==
    /\ QInitLocals
    /\ user_limits = {}
    /\ history = 0
    /\ d0 = 0

\* counters left by earlier requests of the running hour
Init ==
    /\ InitLocals
    /\ CInitLocals
    /\ QInitEmpty
    /\ \E m0 \in InitMinuteCounts, h0 \in InitHourExtra :
          /\ redis = InitStore(m0, m0 + h0)
          /\ incrs = [k \in DOMAIN InitStore(m0, m0 + h0) |->
                         InitStore(m0, m0 + h0)[k].val]

\* no counters at all
InitFresh ==
    /\ InitLocals
    /\ CInitLocals
    /\ QInitEmpty
    /\ redis = InitStore(0, 0)
    /\ incrs = InitStore(0, 0)

\* ------------------------------------------------------------------------
\* RateLimiterService.check_and_increment behind check_rate_limit_dependency
\* ------------------------------------------------------------------------
Finish(p, outcome) == pc' = [pc EXCEPT ![p] = outcome]

\* the dependency calls check_and_increment(current_user.id)
StartCall(p) ==
    /\ pc[p] = "idle"
    /\ calls' = calls + 1
    /\ crossed' = [crossed EXCEPT ![p] = FALSE]
    /\ IF RATE_LIMIT_ENABLED
       THEN /\ \E u \in Users :
                 key' = [key EXCEPT ![p] = GetRateLimitKey(u, MINUTE, now)]
            /\ pc' = [pc EXCEPT ![p] = "pre_minute"]
            /\ UNCHANGED post
       ELSE /\ post' = [post EXCEPT ![p] =
                   [is_allowed |-> TRUE, minute_allowed |-> TRUE,
                    hour_allowed |-> TRUE,
                    minute_limit |-> [limit |-> 999999, remaining |-> 999999,
                                      reset_at |-> now, period |-> MINUTE],
                    hour_limit |-> [limit |-> 999999, remaining |-> 999999,
                                    reset_at |-> now, period |-> MINUTE]]]
            /\ Finish(p, DependencyOutcome("status"))
            /\ UNCHANGED key
    /\ UNCHANGED <<qvars, cvars>>
    /\ UNCHANGED <<now, ticks, redis, incrs, pre, exc, seen, writes,
                   failed, failures, resets>>

Call(p) == calls < MaxCalls /\ StartCall(p)

\* get_rate_limit_status, first half: check_rate_limit(user, MINUTE)
PreMinute(p) ==
    /\ pc[p] = "pre_minute"
    /\ LET r == CheckRateLimit(redis, key[p], MINUTE, now)
       IN /\ pre' = [pre EXCEPT ![p].minute_limit = r.info,
                                ![p].minute_allowed = r.is_allowed]
          /\ seen' = [seen EXCEPT ![p].minute = IncrsOf(key[p]),
                        ![p].minute_in = (TimeWindow(MINUTE, now) = key[p][3])]
    /\ key' = [key EXCEPT ![p] = GetRateLimitKey(key[p][1], HOUR, now)]
    /\ pc' = [pc EXCEPT ![p] = "pre_hour"]
    /\ UNCHANGED <<qvars, cvars>>
    /\ UNCHANGED <<now, ticks, redis, incrs, post, exc, writes, failed,
                   crossed, calls, failures, resets>>

PreHour_ignoresMinute(p) ==
    /\ pc[p] = "pre_hour"
    /\ LET r == CheckRateLimit(redis, key[p], HOUR, now)
           allowed == r.is_allowed
       IN /\ pre' = [pre EXCEPT ![p].hour_limit = r.info,
                                ![p].hour_allowed = r.is_allowed,
                                ![p].is_allowed = allowed]
          /\ seen' = [seen EXCEPT ![p].hour = IncrsOf(key[p]),
                        ![p].hour_in = (TimeWindow(HOUR, now) = key[p][3])]
          /\ IF allowed
             THEN /\ pc' = [pc EXCEPT ![p] = "incr_minute"]
                  /\ key' = [key EXCEPT ![p] =
                                GetRateLimitKey(key[p][1], MINUTE, now)]
             ELSE /\ pc' = [pc EXCEPT ![p] = "raise"]
                  /\ UNCHANGED key
    /\ UNCHANGED <<qvars, cvars>>
    /\ UNCHANGED <<now, ticks, redis, incrs, post, exc, writes, failed,
                   crossed, calls, failures, resets>>

\* get_rate_limit_status, second half: check_rate_limit(user, HOUR) and the
\* conjunction of the two answers
PreHour(p) ==
    /\ pc[p] = "pre_hour"
    /\ LET r == CheckRateLimit(redis, key[p], HOUR, now)
           allowed == pre[p].minute_allowed /\ r.is_allowed
       IN /\ pre' = [pre EXCEPT ![p].hour_limit = r.info,
                                ![p].hour_allowed = r.is_allowed,
                                ![p].is_allowed = allowed]
          /\ seen' = [seen EXCEPT ![p].hour = IncrsOf(key[p]),
                        ![p].hour_in = (TimeWindow(HOUR, now) = key[p][3])]
          /\ IF allowed
             THEN /\ pc' = [pc EXCEPT ![p] = "incr_minute"]
                  /\ key' = [key EXCEPT ![p] =
                                GetRateLimitKey(key[p][1], MINUTE, now)]
             ELSE /\ pc' = [pc EXCEPT ![p] = "raise"]
                  /\ UNCHANGED key
    /\ UNCHANGED <<qvars, cvars>>
    /\ UNCHANGED <<now, ticks, redis, incrs, post, exc, writes, failed,
                   crossed, calls, failures, resets>>

RaiseRateLimitExceeded_counting(p) ==
    /\ pc[p] = "raise"
    /\ LET limit_info == LimitingInfo(pre[p])
       IN exc' = [exc EXCEPT ![p] =
                     [retry_after |-> RetryAfter(limit_info, now),
                      limit_info |-> limit_info,
                      raised_at |-> now]]
    /\ redis' = RedisIncr(redis, GetRateLimitKey(key[p][1], MINUTE, now))
    /\ incrs' = BumpIncrs(GetRateLimitKey(key[p][1], MINUTE, now))
    /\ writes' = [writes EXCEPT ![p] = @ + 1]
    /\ Finish(p, DependencyOutcome("RateLimitExceeded"))
    /\ UNCHANGED <<qvars, cvars>>
    /\ UNCHANGED <<now, ticks, key, pre, post, seen, failed, crossed, calls,
                   failures, resets>>

\* status not allowed: retry_after from a fresh reading of the clock, then
\* RateLimitExceeded, which the dependency turns into HTTP 429
RaiseRateLimitExceeded(p) ==
    /\ pc[p] = "raise"
    /\ LET limit_info == LimitingInfo(pre[p])
       IN exc' = [exc EXCEPT ![p] =
                     [retry_after |-> RetryAfter(limit_info, now),
                      limit_info |-> limit_info,
                      raised_at |-> now]]
    /\ Finish(p, DependencyOutcome("RateLimitExceeded"))
    /\ UNCHANGED <<qvars, cvars>>
    /\ UNCHANGED <<now, ticks, redis, incrs, key, pre, post, seen,
                   writes, failed, crossed, calls, failures, resets>>

Incr_alwaysExpires(p, period) ==
    /\ pc[p] = "incr_" \o period
    /\ redis' = RedisIncr(redis, key[p])
    /\ incrs' = BumpIncrs(key[p])
    /\ writes' = [writes EXCEPT ![p] = @ + 1]
    /\ pc' = [pc EXCEPT ![p] = "expire_" \o period]
    /\ UNCHANGED key
    /\ UNCHANGED <<qvars, cvars>>
    /\ UNCHANGED <<now, ticks, pre, post, exc, seen, failed, crossed, calls,
                   failures, resets>>

\* increment_rate_limit: INCR
Incr(p, period) ==
    /\ pc[p] = "incr_" \o period
    /\ redis' = RedisIncr(redis, key[p])
    /\ incrs' = BumpIncrs(key[p])
    /\ writes' = [writes EXCEPT ![p] = @ + 1]
    /\ IF redis'[key[p]].val = 1
       THEN /\ pc' = [pc EXCEPT ![p] = "expire_" \o period]
            /\ UNCHANGED key
       ELSE IF period = MINUTE
       THEN /\ pc' = [pc EXCEPT ![p] = "incr_hour"]
            /\ key' = [key EXCEPT ![p] = GetRateLimitKey(key[p][1], HOUR, now)]
       ELSE /\ pc' = [pc EXCEPT ![p] = "post_minute"]
            /\ key' = [key EXCEPT ![p] = GetRateLimitKey(key[p][1], MINUTE, now)]
    /\ UNCHANGED <<qvars, cvars>>
    /\ UNCHANGED <<now, ticks, pre, post, exc, seen, failed, crossed, calls,
                   failures, resets>>

\* increment_rate_limit: EXPIRE after a first increment
Expire(p, period) ==
    /\ pc[p] = "expire_" \o period
    /\ redis' = RedisExpire(redis, key[p], GetTTLForPeriod(period), now)
    /\ writes' = [writes EXCEPT ![p] = @ + 1]
    /\ IF period = MINUTE
       THEN /\ pc' = [pc EXCEPT ![p] = "incr_hour"]
            /\ key' = [key EXCEPT ![p] = GetRateLimitKey(key[p][1], HOUR, now)]
       ELSE /\ pc' = [pc EXCEPT ![p] = "post_minute"]
            /\ key' = [key EXCEPT ![p] = GetRateLimitKey(key[p][1], MINUTE, now)]
    /\ UNCHANGED <<qvars, cvars>>
    /\ UNCHANGED <<now, ticks, incrs, pre, post, exc, seen, failed,
                   crossed, calls, failures, resets>>

IncrHour_skipped(p) ==
    /\ pc[p] = "incr_hour"
    /\ pc' = [pc EXCEPT ![p] = "post_minute"]
    /\ key' = [key EXCEPT ![p] = GetRateLimitKey(key[p][1], MINUTE, now)]
    /\ UNCHANGED <<qvars, cvars>>
    /\ UNCHANGED <<now, ticks, redis, incrs, pre, post, exc, seen, writes,
                   failed, crossed, calls, failures, resets>>

IncrMinute(p) == Incr(p, MINUTE)
ExpireMinute(p) == Expire(p, MINUTE)
IncrHour(p) == Incr(p, HOUR)
ExpireHour(p) == Expire(p, HOUR)

\* the status read again after both increments
PostMinute(p) ==
    /\ pc[p] = "post_minute"
    /\ LET r == CheckRateLimit(redis, key[p], MINUTE, now)
       IN post' = [post EXCEPT ![p].minute_limit = r.info,
                                ![p].minute_allowed = r.is_allowed]
    /\ key' = [key EXCEPT ![p] = GetRateLimitKey(key[p][1], HOUR, now)]
    /\ pc' = [pc EXCEPT ![p] = "post_hour"]
    /\ UNCHANGED <<qvars, cvars>>
    /\ UNCHANGED <<now, ticks, redis, incrs, pre, exc, seen, writes,
                   failed, crossed, calls, failures, resets>>

PostHour_preView(p) ==
    /\ pc[p] = "post_hour"
    /\ post' = [post EXCEPT ![p] = pre[p]]
    /\ Finish(p, DependencyOutcome("status"))
    /\ UNCHANGED <<qvars, cvars>>
    /\ UNCHANGED <<now, ticks, redis, incrs, key, pre, exc, seen, writes,
                   failed, crossed, calls, failures, resets>>

PostHour(p) ==
    /\ pc[p] = "post_hour"
    /\ LET r == CheckRateLimit(redis, key[p], HOUR, now)
       IN post' = [post EXCEPT ![p].hour_limit = r.info,
                     ![p].hour_allowed = r.is_allowed,
                     ![p].is_allowed = post[p].minute_allowed /\ r.is_allowed]
    /\ Finish(p, DependencyOutcome("status"))
    /\ UNCHANGED <<qvars, cvars>>
    /\ UNCHANGED <<now, ticks, redis, incrs, key, pre, exc, seen,
                   writes, failed, crossed, calls, failures, resets>>

\* a store operation raises (RedisClient logs and re-raises); a write may or
\* may not have reached the server before the error
StoreFailure(p) ==
    /\ pc[p] \in GetSteps \cup WriteSteps
    /\ failures < MaxFailures
    /\ failures' = failures + 1
    /\ failed' = [failed EXCEPT ![p] = TRUE]
    /\ \E applied \in BOOLEAN :
          IF applied /\ pc[p] \in {"incr_minute", "incr_hour"}
          THEN /\ redis' = RedisIncr(redis, key[p])
               /\ incrs' = BumpIncrs(key[p])
               /\ writes' = [writes EXCEPT ![p] = @ + 1]
          ELSE IF applied /\ pc[p] = "expire_minute"
          THEN /\ redis' = RedisExpire(redis, key[p], GetTTLForPeriod(MINUTE), now)
               /\ writes' = [writes EXCEPT ![p] = @ + 1]
               /\ UNCHANGED incrs
          ELSE IF applied /\ pc[p] = "expire_hour"
          THEN /\ redis' = RedisExpire(redis, key[p], GetTTLForPeriod(HOUR), now)
               /\ writes' = [writes EXCEPT ![p] = @ + 1]
               /\ UNCHANGED incrs
          ELSE /\ ~applied
               /\ UNCHANGED <<redis, incrs, writes>>
    /\ Finish(p, DependencyOutcome("Exception"))
    /\ UNCHANGED <<qvars, cvars>>
    /\ UNCHANGED <<now, ticks, key, pre, post, exc, seen, crossed,
                   calls, resets>>

\* the gate is over; the task is free for the next request
Return(p) ==
    /\ pc[p] \in Terminal
    /\ pc' = [pc EXCEPT ![p] = "idle"]
    /\ key' = [key EXCEPT ![p] = NoKey]
    /\ pre' = [pre EXCEPT ![p] = NoStatus]
    /\ post' = [post EXCEPT ![p] = NoStatus]
    /\ exc' = [exc EXCEPT ![p] = NoExc]
    /\ seen' = [seen EXCEPT ![p] = NoSeen]
    /\ writes' = [writes EXCEPT ![p] = 0]
    /\ failed' = [failed EXCEPT ![p] = FALSE]
    /\ crossed' = [crossed EXCEPT ![p] = FALSE]
    /\ UNCHANGED <<qvars, cvars>>
    /\ UNCHANGED <<now, ticks, redis, incrs, calls, failures, resets>>

ResetRateLimits_minuteOnly(user_id) ==
    /\ resets < MaxResets
    /\ resets' = resets + 1
    /\ LET keys_to_delete == {GetRateLimitKey(user_id, MINUTE, now)}
       IN /\ redis' = RedisDelete(redis, keys_to_delete)
          /\ incrs' = [x \in DOMAIN incrs \ keys_to_delete |-> incrs[x]]
    /\ UNCHANGED <<qvars, cvars>>
    /\ UNCHANGED <<now, ticks, pc, key, pre, post, exc, seen, writes,
                   failed, crossed, calls, failures>>

\* reset_rate_limits (administrative): DEL of the three current-bucket keys
ResetRateLimits(user_id) ==
    /\ resets < MaxResets
    /\ resets' = resets + 1
    /\ LET keys_to_delete == {GetRateLimitKey(user_id, MINUTE, now),
                              GetRateLimitKey(user_id, HOUR, now),
                              GetRateLimitKey(user_id, DAY, now)}
       IN /\ redis' = RedisDelete(redis, keys_to_delete)
          /\ incrs' = [x \in DOMAIN incrs \ keys_to_delete |-> incrs[x]]
    /\ UNCHANGED <<qvars, cvars>>
    /\ UNCHANGED <<now, ticks, pc, key, pre, post, exc, seen, writes,
                   failed, crossed, calls, failures>>

\* the wall clock advances; keys whose TTL has run out disappear
Tick(d) ==
    /\ ticks < MaxTicks
    /\ ticks' = ticks + 1
    /\ now' = now + d
    /\ redis' = RedisPurge(redis, now + d)
    /\ crossed' = [p \in Procs |->
                       \/ crossed[p]
                       \/ /\ pc[p] # "idle"
                          /\ TimeWindow(MINUTE, now + d) # TimeWindow(MINUTE, now)]
    /\ UNCHANGED <<qvars, cvars>>
    /\ UNCHANGED <<incrs, pc, key, pre, post, exc, seen, writes, failed,
                   calls, failures, resets>>

Step(p) ==
    \/ PreMinute(p)
    \/ PreHour(p)
    \/ RaiseRateLimitExceeded(p)
    \/ IncrMinute(p)
    \/ ExpireMinute(p)
    \/ IncrHour(p)
    \/ ExpireHour(p)
    \/ PostMinute(p)
    \/ PostHour(p)
    \/ Return(p)

\* Requests of one user in flight at the same time, an unreliable store and
\* a running clock.
ConcTick(d) == ticks < ConcTicks /\ Tick(d)

Next ==
    \/ \E p \in Procs : Call(p)
    \/ \E p \in Procs : Step(p)
    \/ \E p \in Procs : StoreFailure(p)
    \/ \E d \in TickSteps : ConcTick(d)

Spec == Init /\ [][Next]_vars

\* More requests than tasks: every task serves one request at a time, so at
\* most NumProcs calls are in flight.
OvershootCalls == NumProcs + 1

CallOvershoot(p) == calls < OvershootCalls /\ StartCall(p)

NextOvershoot ==
    \/ \E p \in Procs : CallOvershoot(p)
    \/ \E p \in Procs : Step(p)
    \/ \E p \in Procs : StoreFailure(p)
    \/ \E d \in TickSteps : ConcTick(d)

\* the minute counter one below its limit, the hour counter at 9 or 99
InitOvershoot ==
    /\ InitLocals
    /\ CInitLocals
    /\ QInitEmpty
    /\ \E h0 \in InitHourExtra :
          /\ redis = InitStore(RATE_LIMIT_PER_MINUTE - 1,
                               RATE_LIMIT_PER_MINUTE - 1 + h0)
          /\ incrs = [k \in DOMAIN redis |-> redis[k].val]

SpecOvershoot == InitOvershoot /\ [][NextOvershoot]_vars

\* One request at a time, with the administrator, the unreliable store and
\* the clock acting between its steps.
CallOne(p) ==
    /\ \A q \in Procs : pc[q] = "idle"
    /\ Call(p)

NextOne ==
    \/ \E p \in Procs : CallOne(p)
    \/ \E p \in Procs : Step(p)
    \/ \E p \in Procs : StoreFailure(p)
    \/ \E u \in Users : ResetRateLimits(u)
    \/ \E d \in TickSteps : Tick(d)

SpecOne == Init /\ [][NextOne]_vars

\* One request at a time from no counters at all, a store that answers and
\* nobody else touching the keys.
CallSeq(p) ==
    /\ \A q \in Procs : pc[q] = "idle"
    /\ calls < SeqMaxCalls
    /\ StartCall(p)

NextSeq ==
    \/ \E p \in Procs : CallSeq(p)
    \/ \E p \in Procs : Step(p)
    \/ \E d \in TickSteps : Tick(d)

SpecSeq == InitFresh /\ [][NextSeq]_vars

\* a user without a quota row, or with the row created at time 0 and used
\* since
InitQuota ==
    /\ InitLocals
    /\ CInitLocals
    /\ redis = InitStore(0, 0)
    /\ incrs = InitStore(0, 0)
    /\ QInitLocals
    /\ \/ /\ user_limits = {}
          /\ history = 0
          /\ d0 = 0
       \/ \E u \in InitUsage :
             /\ user_limits = {[NewUserLimit("u1", 0) EXCEPT
                                   !.daily_used = u[1],
                                   !.monthly_used = u[2],
                                   !.total_requests = u[2]]}
             /\ history = u[2]
             /\ d0 = u[1]

\* --- PostgreSQL, READ COMMITTED, as one session sees it -----------------
CommittedRow(user_id) ==
    IF \E r \in user_limits : r.user_id = user_id
    THEN CHOOSE r \in user_limits : r.user_id = user_id
    ELSE NoRow

\* what a SELECT of session q returns: its own uncommitted version of the
\* row if it wrote one, else the last committed version
TxView(q, user_id) ==
    IF txrow[q].user_id = user_id THEN txrow[q] ELSE CommittedRow(user_id)

\* the row is write-locked by a transaction other than q's
LockedByOther(q, user_id) ==
    \E r \in Reqs \ {q} : txrow[r].user_id = user_id

\* flush of a modified object: UPDATE ... SET <the attributes whose value
\* differs from the loaded one>, applied to the current version of the row
FlushUpdate(current, object, loaded_state) ==
    [c \in Columns |->
        IF object[c] # loaded_state[c] THEN object[c] ELSE current[c]]

\* --- one detection request (detect_from_text inside its unit of work) ---
QFail_thenCommit(q, why) ==
    /\ qpc' = [qpc EXCEPT ![q] = "commit"]
    /\ error' = [error EXCEPT ![q] = why]

QFail(q, why) ==
    /\ qpc' = [qpc EXCEPT ![q] = "failed"]
    /\ error' = [error EXCEPT ![q] = why]

\* the step that follows the quota gate: detect_from_text validates the
\* text, detect_from_file validates the file, detect_from_url fetches
AfterGate(src) ==
    IF src = "file" THEN "validate_file"
    ELSE IF src = "url" THEN "validate_url"
    ELSE "validate"

\* the tail of can_make_request and check_user_limits, on the object as it
\* is after check_and_reset_limits
Evaluate(q, user_limit) ==
    /\ result' = [result EXCEPT ![q] =
                     [can_request |-> CanRequest(user_limit),
                      user_limit |-> user_limit]]
    /\ IF CanRequest(user_limit)
       THEN /\ qpc' = [qpc EXCEPT ![q] = AfterGate(source[q])]
            /\ UNCHANGED error
       ELSE QFail(q, "quota")

\* check_and_reset_limits on a freshly loaded object, then either its flush
\* or the evaluation
ResetThenEvaluate(q, row) ==
    LET r == CheckAndResetLimits(row, now)
    IN /\ loaded' = [loaded EXCEPT ![q] = row]
       /\ checkedAt' = [checkedAt EXCEPT ![q] = now]
       /\ base' = [base EXCEPT ![q] = row]
       /\ obj' = [obj EXCEPT ![q] = r.user_limit]
       /\ resetFired' = (resetFired \/ r.updated)
       /\ IF r.updated
          THEN /\ qpc' = [qpc EXCEPT ![q] = "gate_flush"]
               /\ UNCHANGED <<result, error>>
          ELSE Evaluate(q, r.user_limit)

QBegin(q) ==
    /\ qpc[q] = "idle"
    /\ qcalls < MaxRequests
    /\ qcalls' = qcalls + 1
    /\ \E u \in Users : quser' = [quser EXCEPT ![q] = u]
    /\ \E n \in TextLengths : text_length' = [text_length EXCEPT ![q] = n]
    /\ source' = [source EXCEPT ![q] = "text"]
    /\ qpc' = [qpc EXCEPT ![q] = "gate_select"]
    /\ UNCHANGED <<cvars, now, ticks, rlvars, user_limits, history, obj, base, txrow,
                   thist, result, loaded, checkedAt, error, incremented,
                   qticks, d0, incCommitted, resetFired, transport, gated>>

\* can_make_request: SELECT of get_or_create_user_limit
QGateSelect(q) ==
    /\ qpc[q] = "gate_select"
    /\ LET row == TxView(q, quser[q])
       IN IF row = NoRow
          THEN /\ obj' = [obj EXCEPT ![q] = NewUserLimit(quser[q], now)]
               /\ qpc' = [qpc EXCEPT ![q] = "gate_insert"]
               /\ UNCHANGED <<base, result, loaded, checkedAt, error,
                              resetFired>>
          ELSE ResetThenEvaluate(q, row)
    /\ UNCHANGED <<cvars, now, ticks, rlvars, user_limits, history, quser,
                   text_length, txrow, thist, incremented, qcalls, qticks,
                   d0, incCommitted,
                   source, transport, gated>>

\* get_or_create_user_limit: INSERT of the default row (user_id is unique),
\* refresh, then the rest of can_make_request
QGateInsert(q) ==
    /\ qpc[q] = "gate_insert"
    /\ ~LockedByOther(q, quser[q])
    /\ IF CommittedRow(quser[q]) # NoRow
       THEN /\ QFail(q, "integrity")
            /\ UNCHANGED <<obj, base, txrow, result, loaded, checkedAt,
                           resetFired>>
       ELSE /\ txrow' = [txrow EXCEPT ![q] = obj[q]]
            /\ ResetThenEvaluate(q, obj[q])
    /\ UNCHANGED <<cvars, now, ticks, rlvars, user_limits, history, quser,
                   text_length, thist, incremented, qcalls, qticks, d0,
                   incCommitted,
                   source, transport, gated>>

\* check_and_reset_limits: flush and refresh after a reset, then the
\* evaluation on the refreshed object
QGateFlush(q) ==
    /\ qpc[q] = "gate_flush"
    /\ ~LockedByOther(q, quser[q])
    /\ LET written == FlushUpdate(TxView(q, quser[q]), obj[q], base[q])
       IN /\ txrow' = [txrow EXCEPT ![q] = written]
          /\ obj' = [obj EXCEPT ![q] = written]
          /\ base' = [base EXCEPT ![q] = written]
          /\ Evaluate(q, written)
    /\ UNCHANGED <<cvars, now, ticks, rlvars, user_limits, history, quser,
                   text_length, thist, loaded, checkedAt, incremented, qcalls,
                   qticks, d0, incCommitted, resetFired,
                   source, transport, gated>>

\* detect_from_text: validate_text
QValidate(q) ==
    /\ qpc[q] = "validate"
    /\ IF ValidateText(text_length[q])
       THEN /\ qpc' = [qpc EXCEPT ![q] = "infer"]
            /\ UNCHANGED error
       ELSE QFail(q, "validation")
    /\ UNCHANGED <<cvars, now, ticks, rlvars, user_limits, history, quser,
                   text_length, obj, base, txrow, thist, result, loaded,
                   checkedAt, incremented, qcalls, qticks, d0, incCommitted,
                   resetFired,
                   source, transport, gated>>

QInfer_swallowsFailure(q) ==
    /\ qpc[q] = "infer"
    /\ \E answered \in BOOLEAN :
          IF answered
          THEN UNCHANGED error
          ELSE error' = [error EXCEPT ![q] = "upstream"]
    /\ qpc' = [qpc EXCEPT ![q] = "incr_select"]
    /\ UNCHANGED <<cvars, now, ticks, rlvars, user_limits, history, quser,
                   text_length, obj, base, txrow, thist, result, loaded,
                   checkedAt, incremented, qcalls, qticks, d0, incCommitted,
                   resetFired,
                   source, transport, gated>>

\* detect_ai_text: the inference service answers or raises
QInfer(q) ==
    /\ qpc[q] = "infer"
    /\ \E answered \in BOOLEAN :
          IF answered
          THEN /\ qpc' = [qpc EXCEPT ![q] = "incr_select"]
               /\ UNCHANGED error
          ELSE QFail(q, "upstream")
    /\ UNCHANGED <<cvars, now, ticks, rlvars, user_limits, history, quser,
                   text_length, obj, base, txrow, thist, result, loaded,
                   checkedAt, incremented, qcalls, qticks, d0, incCommitted,
                   resetFired,
                   source, transport, gated>>

\* increment_usage: the SELECT of get_or_create_user_limit hands back the
\* object the session already holds, with the attributes it already has;
\* check_and_reset_limits and, when nothing was reset, the three "+= 1"
QIncrSelect(q) ==
    /\ qpc[q] = "incr_select"
    /\ LET r == CheckAndResetLimits(obj[q], now)
       IN /\ resetFired' = (resetFired \/ r.updated)
          /\ IF r.updated
             THEN /\ obj' = [obj EXCEPT ![q] = r.user_limit]
                  /\ qpc' = [qpc EXCEPT ![q] = "incr_flush_reset"]
             ELSE /\ obj' = [obj EXCEPT ![q] = BumpUsage(obj[q])]
                  /\ qpc' = [qpc EXCEPT ![q] = "incr_flush"]
    /\ UNCHANGED <<cvars, now, ticks, rlvars, user_limits, history, quser,
                   text_length, base, txrow, thist, result, loaded, checkedAt,
                   error, incremented, qcalls, qticks, d0, incCommitted,
                   source, transport, gated>>

\* increment_usage: flush and refresh of the reset, then the three "+= 1"
QIncrFlushReset(q) ==
    /\ qpc[q] = "incr_flush_reset"
    /\ ~LockedByOther(q, quser[q])
    /\ LET written == FlushUpdate(TxView(q, quser[q]), obj[q], base[q])
       IN /\ txrow' = [txrow EXCEPT ![q] = written]
          /\ base' = [base EXCEPT ![q] = written]
          /\ obj' = [obj EXCEPT ![q] = BumpUsage(written)]
    /\ qpc' = [qpc EXCEPT ![q] = "incr_flush"]
    /\ UNCHANGED <<cvars, now, ticks, rlvars, user_limits, history, quser,
                   text_length, thist, result, loaded, checkedAt, error,
                   incremented, qcalls, qticks, d0, incCommitted, resetFired,
                   source, transport, gated>>

\* increment_usage: flush and refresh of the incremented counters
QIncrFlush(q) ==
    /\ qpc[q] = "incr_flush"
    /\ ~LockedByOther(q, quser[q])
    /\ LET written == FlushUpdate(TxView(q, quser[q]), obj[q], base[q])
       IN /\ txrow' = [txrow EXCEPT ![q] = written]
          /\ obj' = [obj EXCEPT ![q] = written]
          /\ base' = [base EXCEPT ![q] = written]
    /\ incremented' = [incremented EXCEPT ![q] = TRUE]
    /\ qpc' = [qpc EXCEPT ![q] = "history"]
    /\ UNCHANGED <<cvars, now, ticks, rlvars, user_limits, history, quser,
                   text_length, thist, result, loaded, checkedAt, error,
                   qcalls, qticks, d0, incCommitted, resetFired,
                   source, transport, gated>>

\* create_history_record: the INSERT succeeds or raises
QHistory(q) ==
    /\ qpc[q] = "history"
    /\ \E inserted \in BOOLEAN :
          IF inserted
          THEN /\ thist' = [thist EXCEPT ![q] = 1]
               /\ qpc' = [qpc EXCEPT ![q] = "commit"]
               /\ UNCHANGED error
          ELSE /\ QFail(q, "history")
               /\ UNCHANGED thist
    /\ UNCHANGED <<cvars, now, ticks, rlvars, user_limits, history, quser,
                   text_length, obj, base, txrow, result, loaded, checkedAt,
                   incremented, qcalls, qticks, d0, incCommitted, resetFired,
                   source, transport, gated>>

\* the request ended without an exception: session.commit()
QCommit(q) ==
    /\ qpc[q] = "commit"
    /\ user_limits' =
          IF txrow[q] = NoRow THEN user_limits
          ELSE {r \in user_limits : r.user_id # txrow[q].user_id}
                  \cup {txrow[q]}
    /\ history' = history + thist[q]
    /\ incCommitted' = incCommitted + (IF incremented[q] THEN 1 ELSE 0)
    /\ txrow' = [txrow EXCEPT ![q] = NoRow]
    /\ thist' = [thist EXCEPT ![q] = 0]
    /\ qpc' = [qpc EXCEPT ![q] = "done"]
    /\ UNCHANGED <<cvars, now, ticks, rlvars, quser, text_length, obj, base, result,
                   loaded, checkedAt, error, incremented, qcalls, qticks, d0,
                   resetFired,
                   source, transport, gated>>

QRollback_keepsFlushed(q) ==
    /\ qpc[q] = "failed"
    /\ user_limits' =
          IF txrow[q] = NoRow THEN user_limits
          ELSE {r \in user_limits : r.user_id # txrow[q].user_id}
                  \cup {txrow[q]}
    /\ txrow' = [txrow EXCEPT ![q] = NoRow]
    /\ thist' = [thist EXCEPT ![q] = 0]
    /\ qpc' = [qpc EXCEPT ![q] = "rolled_back"]
    /\ UNCHANGED <<cvars, now, ticks, rlvars, history, quser,
                   text_length, obj, base, result, loaded, checkedAt, error,
                   incremented, qcalls, qticks, d0, incCommitted, resetFired,
                   source, transport, gated>>

\* the request ended with an exception: the session is rolled back
QRollback(q) ==
    /\ qpc[q] = "failed"
    /\ txrow' = [txrow EXCEPT ![q] = NoRow]
    /\ thist' = [thist EXCEPT ![q] = 0]
    /\ qpc' = [qpc EXCEPT ![q] = "rolled_back"]
    /\ UNCHANGED <<cvars, now, ticks, rlvars, user_limits, history, quser,
                   text_length, obj, base, result, loaded, checkedAt, error,
                   incremented, qcalls, qticks, d0, incCommitted, resetFired,
                   source, transport, gated>>

\* the session is closed; the task takes the next request
QEnd(q) ==
    /\ qpc[q] \in {"done", "rolled_back"}
    /\ qpc' = [qpc EXCEPT ![q] = "idle"]
    /\ quser' = [quser EXCEPT ![q] = ""]
    /\ text_length' = [text_length EXCEPT ![q] = 0]
    /\ obj' = [obj EXCEPT ![q] = NoRow]
    /\ base' = [base EXCEPT ![q] = NoRow]
    /\ result' = [result EXCEPT ![q] = NoResult]
    /\ loaded' = [loaded EXCEPT ![q] = NoRow]
    /\ checkedAt' = [checkedAt EXCEPT ![q] = 0]
    /\ error' = [error EXCEPT ![q] = ""]
    /\ incremented' = [incremented EXCEPT ![q] = FALSE]
    /\ source' = [source EXCEPT ![q] = ""]
    /\ transport' = [transport EXCEPT ![q] = ""]
    /\ gated' = [gated EXCEPT ![q] = FALSE]
    /\ UNCHANGED <<cvars, now, ticks, rlvars, user_limits, history, txrow, thist,
                   qcalls, qticks, d0, incCommitted, resetFired>>

\* days go by
QTick(d) ==
    /\ qticks < QMaxTicks
    /\ qticks' = qticks + 1
    /\ now' = now + d
    /\ UNCHANGED <<cvars, ticks, rlvars, user_limits, history, qpc, quser,
                   text_length, obj, base, txrow, thist, result, loaded,
                   checkedAt, error, incremented, qcalls, d0, incCommitted,
                   resetFired,
                   source, transport, gated>>

QStep(q) ==
    \/ QGateSelect(q)
    \/ QGateInsert(q)
    \/ QGateFlush(q)
    \/ QValidate(q)
    \/ QInfer(q)
    \/ QIncrSelect(q)
    \/ QIncrFlushReset(q)
    \/ QIncrFlush(q)
    \/ QHistory(q)
    \/ QCommit(q)
    \/ QRollback(q)
    \/ QEnd(q)

\* requests of one user in flight at the same time, each in its own session
NextQuota ==
    \/ \E q \in Reqs : QBegin(q)
    \/ \E q \in Reqs : QStep(q)
    \/ \E d \in QTickSteps : QTick(d)

SpecQuota == InitQuota /\ [][NextQuota]_vars

\* one request at a time
QBeginSeq(q) ==
    /\ \A r \in Reqs : qpc[r] = "idle"
    /\ QBegin(q)

NextQuotaSeq ==
    \/ \E q \in Reqs : QBeginSeq(q)
    \/ \E q \in Reqs : QStep(q)
    \/ \E d \in QTickSteps : QTick(d)

SpecQuotaSeq == InitQuota /\ [][NextQuotaSeq]_vars


\* one request at a time around the end of the user's first 30 days: the
\* clock moves to an hour before the monthly deadline and an hour further
LateTickSteps == {MONTH_DAYS * DAY_SECONDS - 3600, 3600}
LateTicks == QMaxTicks + 1

QTickLate(d) ==
    /\ qticks < LateTicks
    /\ qticks' = qticks + 1
    /\ now' = now + d
    /\ UNCHANGED <<cvars, ticks, rlvars, user_limits, history, qpc, quser,
                   text_length, obj, base, txrow, thist, result, loaded,
                   checkedAt, error, incremented, qcalls, d0, incCommitted,
                   resetFired, source, transport, gated>>

NextQuotaLate ==
    \/ \E q \in Reqs : QBeginSeq(q)
    \/ \E q \in Reqs : QStep(q)
    \/ \E d \in LateTickSteps : QTickLate(d)

SpecQuotaLate == InitQuota /\ [][NextQuotaLate]_vars

\* ========================================================================
\* Part III: a detection request from the transport to the end of its unit
\* of work
\* ========================================================================
Sources == {"text", "file", "url"}
BotSources == {"text", "file"}
\* usage of the quota row before the first request: one request left today
PipelineUsage == {<<99, 99>>}

\* the orchestrator is running for request q
InOrchestrator(q) ==
    qpc[q] \in {"gate_select", "gate_insert", "gate_flush", "validate_file",
                "validate_url", "extract", "validate", "infer", "incr_select",
                "incr_flush_reset", "incr_flush", "history"}

\* a user with rate-limit counters of the running minute and a quota row
InitPipeline ==
    /\ InitLocals
    /\ CInitLocals
    /\ QInitLocals
    /\ \E m0 \in InitMinuteCounts :
          /\ redis = InitStore(m0, m0)
          /\ incrs = [k \in DOMAIN InitStore(m0, m0) |->
                         InitStore(m0, m0)[k].val]
    /\ \/ /\ user_limits = {}
          /\ history = 0
          /\ d0 = 0
       \/ \E u \in PipelineUsage :
             /\ user_limits = {[NewUserLimit("u1", 0) EXCEPT
                                   !.daily_used = u[1],
                                   !.monthly_used = u[2],
                                   !.total_requests = u[2]]}
             /\ history = u[2]
             /\ d0 = u[1]

\* an HTTP detection endpoint receives a request; its rate-limit dependency
\* is resolved before the endpoint body runs
HttpReceive(q) ==
    /\ \A r \in Reqs : qpc[r] = "idle" /\ pc[r] = "idle"
    /\ qcalls < MaxRequests
    /\ qcalls' = qcalls + 1
    /\ \E u \in Users : quser' = [quser EXCEPT ![q] = u]
    /\ \E src \in Sources : source' = [source EXCEPT ![q] = src]
    /\ \E n \in TextLengths : text_length' = [text_length EXCEPT ![q] = n]
    /\ transport' = [transport EXCEPT ![q] = "http"]
    /\ qpc' = [qpc EXCEPT ![q] = "rate_gate"]
    /\ UNCHANGED <<cvars, now, ticks, rlvars, user_limits, history, obj, base, txrow,
                   thist, result, loaded, checkedAt, error, incremented,
                   qticks, d0, incCommitted, resetFired, gated>>

\* check_rate_limit_dependency calls check_and_increment for the user
GateCall(q) ==
    /\ qpc[q] = "rate_gate"
    /\ StartCall(q)

\* the steps of check_and_increment
GateStep(q) ==
    \/ PreMinute(q)
    \/ PreHour(q)
    \/ RaiseRateLimitExceeded(q)
    \/ IncrMinute(q)
    \/ ExpireMinute(q)
    \/ IncrHour(q)
    \/ ExpireHour(q)
    \/ PostMinute(q)
    \/ PostHour(q)

\* the dependency returned (status stored, or failed open): the endpoint
\* body calls the orchestrator
HttpDispatch(q) ==
    /\ qpc[q] = "rate_gate"
    /\ pc[q] \in {"allowed", "fail_open"}
    /\ gated' = [gated EXCEPT ![q] = TRUE]
    /\ qpc' = [qpc EXCEPT ![q] = "gate_select"]
    /\ UNCHANGED <<cvars, now, ticks, rlvars, user_limits, history, quser,
                   text_length, obj, base, txrow, thist, result, loaded,
                   checkedAt, error, incremented, qcalls, qticks, d0,
                   incCommitted, resetFired, source, transport>>

\* the dependency raised HTTP 429: the endpoint body never runs
HttpReject(q) ==
    /\ qpc[q] = "rate_gate"
    /\ pc[q] = "rejected"
    /\ gated' = [gated EXCEPT ![q] = TRUE]
    /\ QFail(q, "rate_limit")
    /\ UNCHANGED <<cvars, now, ticks, rlvars, user_limits, history, quser,
                   text_length, obj, base, txrow, thist, result, loaded,
                   checkedAt, incremented, qcalls, qticks, d0,
                   incCommitted, resetFired, source, transport>>

\* the request is over: the rate limiter's locals of the task are dropped
GateReturn(q) ==
    /\ qpc[q] = "idle"
    /\ Return(q)

\* the chat-bot handlers handle_text and handle_document: a text under 50
\* characters is answered at once; otherwise a session is opened and the
\* detection service is called
TelegramReceive(q) ==
    /\ \A r \in Reqs : qpc[r] = "idle" /\ pc[r] = "idle"
    /\ qcalls < MaxRequests
    /\ qcalls' = qcalls + 1
    /\ \E u \in Users : quser' = [quser EXCEPT ![q] = u]
    /\ transport' = [transport EXCEPT ![q] = "telegram"]
    /\ \E src \in BotSources, n \in TextLengths :
          /\ source' = [source EXCEPT ![q] = src]
          /\ text_length' = [text_length EXCEPT ![q] = n]
          /\ IF src = "text" /\ n < MIN_TEXT_LENGTH
             THEN QFail(q, "too_short")
             ELSE /\ qpc' = [qpc EXCEPT ![q] = "gate_select"]
                  /\ UNCHANGED error
    /\ UNCHANGED <<cvars, now, ticks, rlvars, user_limits, history, obj, base, txrow,
                   thist, result, loaded, checkedAt, incremented,
                   qticks, d0, incCommitted, resetFired, gated>>

\* detect_from_file: _validate_file accepts the file or raises ValueError
QValidateFile(q) ==
    /\ qpc[q] = "validate_file"
    /\ \E accepted \in BOOLEAN :
          IF accepted
          THEN /\ qpc' = [qpc EXCEPT ![q] = "extract"]
               /\ UNCHANGED error
          ELSE QFail(q, "validation")
    /\ UNCHANGED <<cvars, now, ticks, rlvars, user_limits, history, quser,
                   text_length, obj, base, txrow, thist, result, loaded,
                   checkedAt, incremented, qcalls, qticks, d0, incCommitted,
                   resetFired, source, transport, gated>>

\* detect_from_url: fetch_article starts with _validate_url, which accepts
\* the URL or raises ValueError
QValidateUrl(q) ==
    /\ qpc[q] = "validate_url"
    /\ \E accepted \in BOOLEAN :
          IF accepted
          THEN /\ qpc' = [qpc EXCEPT ![q] = "extract"]
               /\ UNCHANGED error
          ELSE QFail(q, "validation")
    /\ UNCHANGED <<cvars, now, ticks, rlvars, user_limits, history, quser,
                   text_length, obj, base, txrow, thist, result, loaded,
                   checkedAt, incremented, qcalls, qticks, d0, incCommitted,
                   resetFired, source, transport, gated>>

\* extract_text_from_file / fetch_article: the collaborator returns the text
\* or raises
QExtract(q) ==
    /\ qpc[q] = "extract"
    /\ \E extracted \in BOOLEAN :
          IF extracted
          THEN /\ qpc' = [qpc EXCEPT ![q] = "validate"]
               /\ UNCHANGED error
          ELSE QFail(q, "extraction")
    /\ UNCHANGED <<cvars, now, ticks, rlvars, user_limits, history, quser,
                   text_length, obj, base, txrow, thist, result, loaded,
                   checkedAt, incremented, qcalls, qticks, d0, incCommitted,
                   resetFired, source, transport, gated>>

\* days go by: expired rate-limit keys disappear
PipeTick(d) ==
    /\ qticks < QMaxTicks
    /\ qticks' = qticks + 1
    /\ now' = now + d
    /\ redis' = RedisPurge(redis, now + d)
    /\ crossed' = [p \in Procs |-> crossed[p] \/ pc[p] # "idle"]
    /\ UNCHANGED <<ticks, incrs, pc, key, pre, post, exc, seen, writes, failed,
                   calls, failures, resets>>
    /\ UNCHANGED <<cvars, user_limits, history, qpc, quser, text_length, obj, base,
                   txrow, thist, result, loaded, checkedAt, error,
                   incremented, qcalls, d0, incCommitted, resetFired,
                   source, transport, gated>>

\* one request at a time, over HTTP or from the chat-bot
NextPipeline ==
    \/ \E q \in Reqs : HttpReceive(q)
    \/ \E q \in Reqs : GateCall(q)
    \/ \E q \in Reqs : GateStep(q)
    \/ \E q \in Reqs : StoreFailure(q)
    \/ \E q \in Reqs : HttpDispatch(q)
    \/ \E q \in Reqs : HttpReject(q)
    \/ \E q \in Reqs : TelegramReceive(q)
    \/ \E q \in Reqs : QStep(q)
    \/ \E q \in Reqs : QValidateFile(q)
    \/ \E q \in Reqs : QValidateUrl(q)
    \/ \E q \in Reqs : QExtract(q)
    \/ \E q \in Reqs : GateReturn(q)
    \/ \E d \in QTickSteps : PipeTick(d)

SpecPipeline == InitPipeline /\ [][NextPipeline]_vars

\* ========================================================================
\* Part IV: the inference and extraction collaborators, one call at a time
\* ========================================================================

\* --- AIDetectionModelService: mapping of the inference response ----------
AI_GENERATED == "ai_generated"
HUMAN_WRITTEN == "human_written"
UNCERTAIN == "uncertain"

\* label strings a response may carry (NoLabel: no label field, or a value
\* that is not a string)
Labels == {NoLabel, "ai", "AI", "artificial", "human", "Human_Written",
           "mixed", "uncertain", "fake", "LLM", ""}
\* ai_probability in hundredths (NoValue: field missing or not a number)
Probabilities == {NoValue, 0, 39, 40, 55, 70, 71, 85, 100}

\* str.lower() on the labels above
Lower(l) ==
    IF l = "AI" THEN "ai"
    ELSE IF l = "Human_Written" THEN "human_written"
    ELSE IF l = "LLM" THEN "llm"
    ELSE l

RecognisedLabels == {"ai", "ai_generated", "artificial", "human",
                     "human_written", "mixed", "uncertain"}

MapLabel_noFallback(l, p) ==
    LET normalized == Lower(l)
    IN IF normalized \in {"ai", "ai_generated", "artificial"} THEN AI_GENERATED
       ELSE IF normalized \in {"human", "human_written"} THEN HUMAN_WRITTEN
       ELSE UNCERTAIN

\* _map_label
MapLabel(l, p) ==
    LET normalized == Lower(l)
    IN IF normalized \in {"ai", "ai_generated", "artificial"} THEN AI_GENERATED
       ELSE IF normalized \in {"human", "human_written"} THEN HUMAN_WRITTEN
       ELSE IF normalized \in {"mixed", "uncertain"} THEN UNCERTAIN
       ELSE IF p > 70 THEN AI_GENERATED
       ELSE IF p < 40 THEN HUMAN_WRITTEN
       ELSE UNCERTAIN

\* detect_ai_text once the response was parsed: by label first ("ai_probability_f
\* or 0.0" for a missing probability), by probability alone without a label
DetectAiText(l, p) ==
    IF l # NoLabel
    THEN [result |-> MapLabel(l, IF p = NoValue THEN 0 ELSE p),
          raised |-> FALSE]
    ELSE IF p # NoValue
    THEN [result |-> (IF p > 70 THEN AI_GENERATED
                      ELSE IF p < 40 THEN HUMAN_WRITTEN
                      ELSE UNCERTAIN),
          raised |-> FALSE]
    ELSE [result |-> UNCERTAIN, raised |-> FALSE]

\* --- the extraction collaborators: how a failure surfaces -----------------
VALUE_ERROR == "ValueError"
RUNTIME_ERROR == "RuntimeError"
NO_ERROR == "none"

Extractors == {"gemini", "newspaper"}
\* what went wrong inside the collaborator ("ok": nothing)
Causes == {"ok", "no_text", "network", "http_status", "empty_body",
           "invalid_url", "parse_failure"}
NoTextCauses == {"no_text"}
UnavailableCauses == {"network", "http_status"}

\* GeminiTextExtractor.extract_text_from_file: every exception raised in the
\* try block, the ValueError for an empty extraction included, is caught
\* and replaced by RuntimeError
ExtractTextFromFile(c) ==
    IF c = "ok" THEN NO_ERROR ELSE RUNTIME_ERROR

\* NewspaperService.fetch_article: _validate_url and _download_html raise
\* outside the try block; whatever _parse_article raises is caught and
\* replaced by RuntimeError
FetchArticle(c) ==
    IF c = "ok" THEN NO_ERROR
    ELSE IF c = "invalid_url" THEN VALUE_ERROR
    ELSE IF c \in {"network", "http_status"} THEN RUNTIME_ERROR
    ELSE IF c = "empty_body" THEN VALUE_ERROR
    ELSE RUNTIME_ERROR

\* a response of the inference service, or the end of an extraction, arrives
InitCollaborators ==
    /\ InitLocals
    /\ QInitEmpty
    /\ redis = InitStore(0, 0)
    /\ incrs = InitStore(0, 0)
    /\ label \in Labels
    /\ ai_probability \in Probabilities
    /\ detection = NoDetection
    /\ extractor \in Extractors
    /\ cause \in Causes
    /\ surfaced = ""

\* detect_ai_text maps the response
MapResponse ==
    /\ detection = NoDetection
    /\ detection' = DetectAiText(label, ai_probability)
    /\ UNCHANGED <<label, ai_probability, extractor, cause, surfaced>>
    /\ UNCHANGED <<now, ticks, rlvars, qvars>>

\* the extraction ends; detect_from_file and detect_from_url pass the
\* exception on as it is
Extract ==
    /\ surfaced = ""
    /\ surfaced' = IF extractor = "gemini"
                   THEN ExtractTextFromFile(cause)
                   ELSE FetchArticle(cause)
    /\ UNCHANGED <<label, ai_probability, detection, extractor, cause>>
    /\ UNCHANGED <<now, ticks, rlvars, qvars>>

NextCollaborators ==
    \/ MapResponse
    \/ Extract

SpecCollaborators == InitCollaborators /\ [][NextCollaborators]_vars

\* ------------------------------------------------------------------------
\* Properties of the rate limiter
\* ------------------------------------------------------------------------
Proceeds(p) == pc[p] \in {"allowed", "fail_open"}

\* C1: a check that reads the counter of the bucket the clock is in returns
\* is_allowed = (c < limit) and remaining = max(0, limit - c), where c is
\* the number of increments the key has received (0 for a fresh key): a
\* fresh key gives remaining == limit and allowed, and after `limit`
\* increments the check gives not allowed and remaining == 0.
CheckReadsCounter ==
    \A p \in Procs :
        /\ (seen[p].minute >= 0 /\ seen[p].minute_in) =>
              /\ pre[p].minute_allowed = (seen[p].minute < RATE_LIMIT_PER_MINUTE)
              /\ pre[p].minute_limit.remaining =
                    Max(0, RATE_LIMIT_PER_MINUTE - seen[p].minute)
              /\ (seen[p].minute = 0 =>
                    /\ pre[p].minute_limit.remaining = RATE_LIMIT_PER_MINUTE
                    /\ pre[p].minute_allowed)
              /\ (seen[p].minute = RATE_LIMIT_PER_MINUTE =>
                    /\ pre[p].minute_limit.remaining = 0
                    /\ ~pre[p].minute_allowed)
        /\ (seen[p].hour >= 0 /\ seen[p].hour_in) =>
              /\ pre[p].hour_allowed = (seen[p].hour < RATE_LIMIT_PER_HOUR)
              /\ pre[p].hour_limit.remaining =
                    Max(0, RATE_LIMIT_PER_HOUR - seen[p].hour)

CheckAtLimitSeen ==
    \E p \in Procs :
        /\ seen[p].minute = RATE_LIMIT_PER_MINUTE
        /\ seen[p].minute_in
        /\ ~pre[p].minute_allowed
        /\ pre[p].minute_limit.remaining = 0
        /\ resets = 0

\* C2: from no counters, the first RATE_LIMIT_PER_MINUTE sequential calls
\* that end inside the first minute bucket are allowed and the next call
\* inside that bucket is rejected with the minute period.
InFirstBucket == TimeWindow(MINUTE, now) = TimeWindow(MINUTE, StartTime)

TenAllowedEleventhRejected ==
    \A p \in Procs :
        (InFirstBucket /\ pc[p] \in Terminal) =>
            /\ (calls <= RATE_LIMIT_PER_MINUTE => pc[p] = "allowed")
            /\ (calls = RATE_LIMIT_PER_MINUTE + 1 =>
                  /\ pc[p] = "rejected"
                  /\ exc[p].limit_info.period = MINUTE)

EleventhRejectedSeen ==
    \E p \in Procs :
        /\ InFirstBucket
        /\ calls = RATE_LIMIT_PER_MINUTE + 1
        /\ pc[p] = "rejected"
        /\ exc[p].limit_info.period = MINUTE

\* C3: a call that ends in RateLimitExceeded has written nothing to the
\* store: no INCR and no EXPIRE was issued by it.
RejectionWritesNothing ==
    \A p \in Procs : pc[p] = "rejected" => writes[p] = 0

RejectionSeen ==
    \E p \in Procs :
        /\ pc[p] = "rejected"
        /\ ~pre[p].is_allowed
        /\ writes[p] = 0

\* C4: an allowed call of a lone caller that stays inside one bucket leaves
\* the minute and the hour counter one higher than it read them, and the
\* status it returns shows one request less remaining for each period.
AllowedCallCountsOnce ==
    \A p \in Procs :
        (pc[p] = "allowed" /\ ~crossed[p]) =>
            /\ post[p].minute_limit.remaining = pre[p].minute_limit.remaining - 1
            /\ post[p].hour_limit.remaining = pre[p].hour_limit.remaining - 1
            /\ RedisGet(redis, GetRateLimitKey(key[p][1], MINUTE, now)) =
                  <<RATE_LIMIT_PER_MINUTE - pre[p].minute_limit.remaining + 1>>
            /\ RedisGet(redis, GetRateLimitKey(key[p][1], HOUR, now)) =
                  <<RATE_LIMIT_PER_HOUR - pre[p].hour_limit.remaining + 1>>

AllowedCallSeen ==
    \E p \in Procs :
        /\ pc[p] = "allowed"
        /\ ~crossed[p]
        /\ pre[p].minute_limit.remaining = 3
        /\ post[p].minute_limit.remaining = 2

\* C5: a rejection names the minute period whenever the minute window has
\* nothing remaining (also when the hour window has nothing remaining
\* either) and names the hour period only when the hour window is exhausted
\* and the minute window is not.
MinuteTakesPrecedence ==
    \A p \in Procs :
        pc[p] = "rejected" =>
            /\ exc[p].limit_info.period \in {MINUTE, HOUR}
            /\ (pre[p].minute_limit.remaining = 0 =>
                  exc[p].limit_info.period = MINUTE)
            /\ (exc[p].limit_info.period = HOUR =>
                  /\ pre[p].hour_limit.remaining = 0
                  /\ pre[p].minute_limit.remaining > 0)

BothExhaustedSeen ==
    \E p \in Procs :
        /\ pc[p] = "rejected"
        /\ pre[p].minute_limit.remaining = 0
        /\ pre[p].hour_limit.remaining = 0
        /\ exc[p].limit_info.period = MINUTE

\* C6: retry_after of every rejection is at least 1 and at most the length
\* of the limiting period, whatever the clock did between the check and the
\* computation.
RetryAfterInRange ==
    \A p \in Procs :
        pc[p] = "rejected" =>
            /\ exc[p].retry_after >= 1
            /\ exc[p].retry_after <= GetTTLForPeriod(exc[p].limit_info.period)

LateRetryAfterSeen ==
    \E p \in Procs :
        /\ pc[p] = "rejected"
        /\ exc[p].limit_info.reset_at < exc[p].raised_at
        /\ exc[p].retry_after = 1

\* C7: a call during which a store operation failed lets the request
\* proceed; it never ends as a rejection.
StoreFailureFailsOpen ==
    \A p \in Procs : failed[p] => (Proceeds(p) /\ pc[p] # "rejected")

FailedOpenSeen ==
    \E p \in Procs :
        /\ failed[p]
        /\ pc[p] = "fail_open"
        /\ writes[p] >= 1

\* ------------------------------------------------------------------------
\* Properties of the quota manager
\* ------------------------------------------------------------------------
Answered(q) == result[q].user_limit # NoRow

\* C8: can_make_request applies the elapsed resets first and evaluates
\* daily_used < daily_limit and monthly_used < monthly_limit on the
\* refreshed quota, which is the one it returns: the returned reset times
\* lie in the future, a daily usage that was due for reset is returned as 0,
\* and a user loaded with daily_used at or above daily_limit whose
\* daily_reset_at has passed is allowed whenever the monthly allowance
\* permits.
CanRequestOnRefreshedQuota ==
    \A q \in Reqs :
        Answered(q) =>
            LET ul == result[q].user_limit
                due == checkedAt[q] >= loaded[q].daily_reset_at
            IN /\ result[q].can_request <=>
                     (ul.daily_used < ul.daily_limit
                        /\ ul.monthly_used < ul.monthly_limit)
               /\ ul.daily_reset_at > checkedAt[q]
               /\ ul.monthly_reset_at > checkedAt[q]
               /\ (due /\ loaded[q].daily_used > 0) => ul.daily_used = 0
               /\ (due /\ loaded[q].daily_used >= loaded[q].daily_limit) =>
                     (result[q].can_request <=>
                         ul.monthly_used < ul.monthly_limit)

ExhaustedDayResetSeen ==
    \E q \in Reqs :
        /\ Answered(q)
        /\ loaded[q].daily_used = loaded[q].daily_limit
        /\ checkedAt[q] >= loaded[q].daily_reset_at
        /\ result[q].can_request
        /\ result[q].user_limit.daily_used = 0

SameDay(q) == obj[q].daily_reset_at = loaded[q].daily_reset_at

\* C9: with one request at a time, a request is counted only if the gate
\* saw daily_used < daily_limit and monthly_used < monthly_limit, and the
\* stored daily_used never exceeds daily_limit; a detection starting from
\* 99 of 100 succeeds and leaves 100, and a detection starting from 100 of
\* 100 on the same day is rejected, reports 100/100 and leaves 100 stored.
SequentialRequestsStayWithinLimit ==
    /\ \A r \in user_limits : r.daily_used <= r.daily_limit
    /\ \A q \in Reqs :
          /\ txrow[q].daily_used <= txrow[q].daily_limit
          /\ incremented[q] =>
                /\ result[q].can_request
                /\ result[q].user_limit.daily_used
                      < result[q].user_limit.daily_limit
                /\ result[q].user_limit.monthly_used
                      < result[q].user_limit.monthly_limit
          /\ (/\ qpc[q] = "done"
              /\ incremented[q]
              /\ SameDay(q)
              /\ loaded[q].daily_used = 99
              /\ loaded[q].daily_limit = 100) =>
                CommittedRow(quser[q]).daily_used = 100
          /\ (/\ Answered(q)
              /\ SameDay(q)
              /\ loaded[q].daily_used = 100
              /\ loaded[q].daily_limit = 100) =>
                /\ ~result[q].can_request
                /\ result[q].user_limit.daily_used = 100
                /\ result[q].user_limit.daily_limit = 100
                /\ qpc[q] \in {"failed", "rolled_back"}
                /\ error[q] = "quota"
                /\ ~incremented[q]
                /\ CommittedRow(quser[q]).daily_used = 100

HundredthThenRejectedSeen ==
    \E q \in Reqs :
        /\ d0 = 99
        /\ incCommitted = 1
        /\ ~resetFired
        /\ qpc[q] = "rolled_back"
        /\ error[q] = "quota"
        /\ result[q].user_limit.daily_used = 100
        /\ result[q].user_limit.daily_limit = 100
        /\ CommittedRow(quser[q]).daily_used = 100

\* C10: as long as no reset has fired, the stored daily_used is the value at
\* the start of the day plus the number of increments whose request
\* committed, whatever the interleaving of the requests.
EveryIncrementCounted ==
    ~resetFired => CommittedRow("u1").daily_used = d0 + incCommitted

Counters == {"daily_used", "monthly_used", "total_requests"}
Resettable == {"daily_used", "monthly_used"}

NonNegativeUsage ==
    /\ \A r \in user_limits : r.daily_used >= 0 /\ r.monthly_used >= 0
    /\ \A q \in Reqs :
          /\ obj[q].daily_used >= 0 /\ obj[q].monthly_used >= 0
          /\ txrow[q].daily_used >= 0 /\ txrow[q].monthly_used >= 0

\* C11: increment_usage returns and writes a quota whose daily_used,
\* monthly_used and total_requests are each exactly 1 above the quota it
\* holds after the resets; whatever a request writes to a usage counter is
\* the value it held plus 1, or 0 for a counter that is reset, or the stored
\* value left as it is; and daily_used and monthly_used are never negative,
\* in the stored rows and in every session's view of them.
UsageRaisedByExactlyOne ==
    /\ []NonNegativeUsage
    /\ [][\A q \in Reqs :
            /\ (qpc[q] = "incr_flush" /\ qpc'[q] = "history") =>
                  /\ \A c \in Counters : obj'[q][c] = base[q][c] + 1
                  /\ txrow'[q] = obj'[q]
            /\ (txrow'[q] # NoRow /\ txrow'[q] # txrow[q]) =>
                  \A c \in Counters :
                     \/ txrow'[q][c] = base[q][c] + 1
                     \/ txrow'[q][c] = TxView(q, quser[q])[c]
                     \/ c \in Resettable /\ txrow'[q][c] = 0
         ]_vars

IncrementAfterResetSeen ==
    \E q \in Reqs :
        /\ qpc[q] = "history"
        /\ incremented[q]
        /\ loaded[q].daily_used > 1
        /\ checkedAt[q] >= loaded[q].daily_reset_at
        /\ obj[q].daily_used = 1
        /\ obj[q].total_requests = loaded[q].total_requests + 1
        /\ txrow[q] = obj[q]

Deadlines == {"daily_reset_at", "monthly_reset_at"}
PeriodOf(c) ==
    IF c = "daily_reset_at" THEN DAY_SECONDS ELSE MONTH_DAYS * DAY_SECONDS

\* C12: every run of check_and_reset_limits at time now hands on a quota
\* whose daily_reset_at and monthly_reset_at are strictly later than now: a
\* deadline that has been reached is set in one step to exactly now + 1 day
\* (daily) or now + 30 days (monthly), however stale it was, a deadline that
\* has not been reached is kept, so no deadline moves backward; and the flush
\* and refresh that follow write and return the deadlines that were set.
ResetDeadlinesMoveForward ==
    [][\A q \in Reqs :
          /\ (\/ qpc[q] = "gate_select" /\ qpc'[q] \notin {"gate_select", "gate_insert"}
              \/ qpc[q] = "gate_insert" /\ qpc'[q] \notin {"gate_insert", "failed"}
              \/ qpc[q] = "incr_select" /\ qpc'[q] # "incr_select") =>
                LET in == IF qpc[q] = "gate_select"
                          THEN TxView(q, quser[q]) ELSE obj[q]
                IN \A c \in Deadlines :
                      /\ obj'[q][c] > now
                      /\ obj'[q][c] >= in[c]
                      /\ now >= in[c] => obj'[q][c] = now + PeriodOf(c)
                      /\ now < in[c] => obj'[q][c] = in[c]
          /\ (qpc[q] \in {"gate_flush", "incr_flush_reset"} /\ qpc'[q] # qpc[q]) =>
                \A c \in Deadlines :
                   obj[q][c] # base[q][c] =>
                      /\ obj'[q][c] = obj[q][c]
                      /\ txrow'[q][c] = obj[q][c]
      ]_vars

StaleDeadlineResetSeen ==
    \E q \in Reqs :
        /\ Answered(q)
        /\ checkedAt[q] > loaded[q].daily_reset_at + DAY_SECONDS
        /\ result[q].user_limit.daily_reset_at = checkedAt[q] + DAY_SECONDS
        /\ result[q].user_limit.monthly_reset_at
              = checkedAt[q] + MONTH_DAYS * DAY_SECONDS

\* the object of request q is what check_and_reset_limits handed on, and
\* no time has passed since that call
JustChecked(q) ==
    /\ qpc[q] \in {"validate", "infer", "incr_select"}
    /\ now = checkedAt[q]

\* C13: a second check_and_reset_limits right after the first, with no
\* increment in between and at the same time, resets nothing: it leaves
\* daily_used, monthly_used, daily_reset_at and monthly_reset_at as the
\* first call left them, reports no update and so flushes nothing; in a
\* request, the call inside increment_usage goes straight to the three
\* "+= 1" without writing to the store.
SecondResetChangesNothing ==
    /\ [](\A q \in Reqs :
            JustChecked(q) =>
               CheckAndResetLimits(obj[q], now)
                  = [user_limit |-> obj[q], updated |-> FALSE])
    /\ [][\A q \in Reqs :
            (JustChecked(q) /\ qpc[q] = "incr_select"
                /\ qpc'[q] # "incr_select") =>
               /\ qpc'[q] = "incr_flush"
               /\ obj'[q] = BumpUsage(obj[q])
               /\ txrow'[q] = txrow[q]
               /\ user_limits' = user_limits
         ]_vars

SecondCallAfterResetSeen ==
    \E q \in Reqs :
        /\ qpc[q] = "incr_flush"
        /\ now = checkedAt[q]
        /\ checkedAt[q] >= loaded[q].daily_reset_at
        /\ loaded[q].daily_used > 0
        /\ txrow[q].daily_used = 0
        /\ txrow[q].daily_reset_at = checkedAt[q] + DAY_SECONDS
        /\ obj[q].daily_used = 1
        /\ obj[q].daily_reset_at = txrow[q].daily_reset_at

\* C14: there is at most one quota row per user, the first
\* get_or_create_user_limit of a user creates it with daily_limit 100,
\* monthly_limit 1000 and no usage, and every call, also one running
\* concurrently with that first call, yields that row: no call ends in an
\* error instead.
GetOrCreateYieldsTheRow ==
    /\ \A u \in Users :
          Cardinality({r \in user_limits : r.user_id = u}) <= 1
    /\ \A q \in Reqs :
          /\ (qpc[q] = "gate_insert") =>
                /\ obj[q].user_id = quser[q]
                /\ obj[q].daily_limit = 100 /\ obj[q].monthly_limit = 1000
                /\ obj[q].daily_used = 0 /\ obj[q].monthly_used = 0
                /\ obj[q].total_requests = 0
          /\ Answered(q) => result[q].user_limit.user_id = quser[q]
          /\ error[q] # "integrity"

\* ------------------------------------------------------------------------
\* Further properties of the rate limiter
\* ------------------------------------------------------------------------
Stored(k) == IF k \in DOMAIN redis THEN redis[k].val ELSE 0

\* C19 (as claimed): whenever check_and_increment returns normally, the
\* status it returns has is_allowed true.
ReturnedStatusIsAllowed ==
    \A p \in Procs : pc[p] = "allowed" => post[p].is_allowed

\* C19 (amended): whenever check_and_increment returns normally, the status
\* it read before incrementing had is_allowed true, and the status it
\* returns is the view after the increments: within the same minute, its
\* is_allowed is true exactly when the minute and hour counters, this call's
\* increments included, are still below their limits.
ReturnedStatusIsPostIncrementView ==
    \A p \in Procs :
        (pc[p] = "allowed" /\ ~crossed[p]) =>
            /\ pre[p].is_allowed
            /\ post[p].is_allowed <=>
                  /\ Stored(GetRateLimitKey("u1", MINUTE, now))
                        < RATE_LIMIT_PER_MINUTE
                  /\ Stored(GetRateLimitKey("u1", HOUR, now))
                        < RATE_LIMIT_PER_HOUR

LastSlotReturnsNotAllowedSeen ==
    \E p \in Procs :
        /\ pc[p] = "allowed"
        /\ ~crossed[p]
        /\ pre[p].is_allowed
        /\ ~post[p].is_allowed
        /\ post[p].minute_limit.remaining = 0

ExpiryOf(store, k) == IF k \in DOMAIN store THEN store[k].exp ELSE NoExpiry
IncrSteps == {"incr_minute", "incr_hour"}
ExpireSteps == {"expire_minute", "expire_hour"}

\* C20: increment_rate_limit raises the bucket counter by one without
\* touching the key's expiry, and goes on to EXPIRE exactly when the value
\* INCR returned is 1; that EXPIRE sets the expiry to the period length (60 s
\* for minute, 3600 s for hour) from the time it runs; an increment whose
\* value is greater than 1 neither sets nor changes the expiry, so the
\* expiry of a key changes only in the EXPIRE of a first increment.
ExpirySetOnFirstIncrementOnly ==
    [][/\ \A p \in Procs :
             /\ (pc[p] \in IncrSteps /\ pc'[p] # pc[p] /\ ~failed'[p]) =>
                   /\ redis'[key[p]].val = Stored(key[p]) + 1
                   /\ redis'[key[p]].exp = ExpiryOf(redis, key[p])
                   /\ (redis'[key[p]].val = 1) <=> (pc'[p] \in ExpireSteps)
             /\ (pc[p] \in ExpireSteps /\ pc'[p] # pc[p] /\ ~failed'[p]) =>
                   /\ key[p] \in DOMAIN redis
                   /\ redis'[key[p]].val = redis[key[p]].val
                   /\ redis'[key[p]].exp
                         = now + (IF key[p][2] = MINUTE THEN 60 ELSE 3600)
       /\ \A k \in DOMAIN redis \cap DOMAIN redis' :
             redis'[k].exp # redis[k].exp =>
                \E p \in Procs : pc[p] \in ExpireSteps /\ key[p] = k
      ]_vars

FirstIncrementExpirySeen ==
    \E p \in Procs :
        LET km == GetRateLimitKey("u1", MINUTE, now)
            kh == GetRateLimitKey("u1", HOUR, now)
        IN /\ pc[p] = "post_minute"
           /\ ~crossed[p]
           /\ Stored(km) = 1 /\ ExpiryOf(redis, km) = now + 60
           /\ Stored(kh) > 1 /\ ExpiryOf(redis, kh) = 3600

\* ------------------------------------------------------------------------
\* Properties of a detection request
\* ------------------------------------------------------------------------
HistoryFailed(q) == qpc[q] = "rolled_back" /\ error[q] = "history"

OrchestratorOnlyBehindRateGate ==
    \A q \in Reqs : InOrchestrator(q) => gated[q]

\* the request is a text detection whose trimmed text is one character short
\* and it has been rejected for that
ShortTextRejected(q) ==
    /\ source[q] = "text"
    /\ text_length[q] = MIN_TEXT_LENGTH - 1
    /\ error[q] \in {"validation", "too_short"}
    /\ qpc[q] = "rolled_back"

\* C16: a text detection request with 49 characters after trimming is
\* rejected with a validation error and changes nothing: no write to the
\* user's minute and hour rate-limit counters, no usage increment, nothing
\* left in its session, no history record.
ShortTextChangesNothing ==
    \A q \in Reqs :
        ShortTextRejected(q) =>
            /\ writes[q] = 0
            /\ ~incremented[q]
            /\ txrow[q] = NoRow
            /\ thist[q] = 0

\* the step of the orchestrator a request is in: 1 quota check, 2 validation
\* of the file or URL, 3 extraction, 4 validation of the text, 5 inference,
\* 6 usage increment, 7 history write, 8 commit
StageOf(at) ==
    IF at \in {"gate_select", "gate_insert", "gate_flush"} THEN 1
    ELSE IF at \in {"validate_file", "validate_url"} THEN 2
    ELSE IF at = "extract" THEN 3
    ELSE IF at = "validate" THEN 4
    ELSE IF at = "infer" THEN 5
    ELSE IF at \in {"incr_select", "incr_flush_reset", "incr_flush"} THEN 6
    ELSE IF at = "history" THEN 7
    ELSE IF at = "commit" THEN 8
    ELSE 0

\* the stage that follows a stage that succeeded: raw text has nothing to
\* extract
StageAfter(src, stage) ==
    IF stage = 1 /\ src = "text" THEN 4 ELSE stage + 1

\* the request ended at the quota gate, at validation, at extraction or at
\* inference
FailedBeforeIncrement(q) ==
    error[q] \in {"quota", "integrity", "validation", "extraction", "upstream"}

NoIncrementNoHistoryOnFailure ==
    \A q \in Reqs :
        FailedBeforeIncrement(q) => ~incremented[q] /\ thist[q] = 0

StepsInOrder ==
    \A q \in Reqs :
        /\ (InOrchestrator(q) /\ qpc'[q] # qpc[q]) =>
              \/ qpc'[q] = "failed"
              \/ StageOf(qpc'[q]) = StageOf(qpc[q])
              \/ StageOf(qpc'[q]) = StageAfter(source[q], StageOf(qpc[q]))
        /\ (incremented'[q] /\ ~incremented[q]) =>
              StageOf(qpc[q]) = 6 /\ error[q] = ""
        /\ (thist'[q] > thist[q]) =>
              StageOf(qpc[q]) = 7 /\ incremented[q] /\ error[q] = ""

PersistedOnlyByCommit ==
    (user_limits' # user_limits \/ history' # history) =>
        \E q \in Reqs : qpc[q] = "commit" /\ error[q] = ""

\* C15: within a detection request the steps run in the order quota check,
\* input validation, extraction (files and URLs), inference, usage
\* increment, history write; increment and history write come only after a
\* successful inference, so a request that fails at the quota gate, at
\* validation, at extraction or at inference neither increments usage nor
\* writes a history record, and persists nothing.
StepsOrderedIncrementAfterInference ==
    /\ []NoIncrementNoHistoryOnFailure
    /\ [][StepsInOrder /\ PersistedOnlyByCommit]_vars

InferenceFailureOnUrlSeen ==
    \E q \in Reqs :
        /\ source[q] = "url"
        /\ error[q] = "upstream"
        /\ qpc[q] = "rolled_back"
        /\ ~incremented[q]

\* ------------------------------------------------------------------------
\* Properties of the administrative reset and of the store's counters
\* ------------------------------------------------------------------------

\* the status a check returns: both periods allowed with nothing used
FullStatus(status) ==
    /\ status.is_allowed
    /\ status.minute_allowed
    /\ status.hour_allowed
    /\ status.minute_limit.remaining = RATE_LIMIT_PER_MINUTE
    /\ status.hour_limit.remaining = RATE_LIMIT_PER_HOUR

\* C21: a check made immediately after reset(user) has completed, with no
\* increment in between, returns remaining == limit and is_allowed == true
\* for the minute and for the hour period, whatever the counters were.
CheckAfterResetIsFull ==
    [][resets' # resets =>
          \A u \in Users : FullStatus(GetRateLimitStatus(redis', u, now'))]_vars

ResetOfExhaustedCountersSeen ==
    /\ resets > 0
    /\ \E p \in Procs :
          /\ pc[p] = "rejected"
          /\ TimeWindow(MINUTE, exc[p].raised_at) = TimeWindow(MINUTE, now)
          /\ exc[p].limit_info.remaining = 0
          /\ FullStatus(GetRateLimitStatus(redis, key[p][1], now))

\* ------------------------------------------------------------------------
\* Properties of the collaborators
\* ------------------------------------------------------------------------

\* the fallback threshold mapping as the specification states it
ThresholdMapping(p) ==
    IF p > 70 THEN AI_GENERATED
    ELSE IF p < 40 THEN HUMAN_WRITTEN
    ELSE UNCERTAIN

\* the response carried a label that is none of the recognised ones
UnrecognisedLabel == label # NoLabel /\ Lower(label) \notin RecognisedLabels

\* C22: a response whose label is not recognised is resolved from
\* ai_probability by the threshold mapping (> 0.7 AI-generated, < 0.4
\* human-written, else uncertain) and raises nothing; with 0.85 it resolves
\* to AI-generated.
UnknownLabelFallsBackToProbability ==
    (detection # NoDetection /\ UnrecognisedLabel /\ ai_probability # NoValue) =>
        /\ ~detection.raised
        /\ detection.result = ThresholdMapping(ai_probability)
        /\ (ai_probability = 85 => detection.result = AI_GENERATED)

UnknownLabelHighProbabilitySeen ==
    /\ UnrecognisedLabel
    /\ ai_probability = 85
    /\ detection = [result |-> AI_GENERATED, raised |-> FALSE]

\* C28: when extraction from a file or a URL fails, 'no readable text
\* found' surfaces as a validation-class error (ValueError) and
\* 'network/service unavailable' as an upstream-unavailable-class error
\* (RuntimeError); the two causes never surface as the same class.
ExtractionErrorsDistinguishCause ==
    surfaced # "" =>
        /\ (cause \in NoTextCauses => surfaced = VALUE_ERROR)
        /\ (cause \in UnavailableCauses => surfaced = RUNTIME_ERROR)

\* ------------------------------------------------------------------------
\* Properties of the unit of work and of the persisted quota
\* ------------------------------------------------------------------------

\* the request ended in an error
EndedInError(q) == error[q] # ""

\* a request that ended in an error is rolled back, never committed, and
\* nothing of it stays in its session
FailedRequestIsRolledBack ==
    \A q \in Reqs :
        EndedInError(q) =>
            /\ qpc[q] \in {"failed", "rolled_back"}
            /\ (qpc[q] = "rolled_back" => txrow[q] = NoRow /\ thist[q] = 0)

\* the persisted rows change in the commit of a request without error and
\* in no other step
PersistedChangesOnlyInCommit ==
    (user_limits' # user_limits \/ history' # history) =>
        \E q \in Reqs :
            /\ qpc[q] = "commit"
            /\ qpc'[q] = "done"
            /\ ~EndedInError(q)
            /\ \A r \in Reqs \ {q} : qpc'[r] = qpc[r]

\* C23: each request is one unit of work on the durable store, committed
\* only when it completes successfully and rolled back on any unhandled
\* error; no step of a request that ends in an error (quota rejection,
\* validation failure, upstream failure, failed history write) changes the
\* persisted quota rows or history rows.
RequestIsOneUnitOfWork ==
    /\ []FailedRequestIsRolledBack
    /\ [][PersistedChangesOnlyInCommit]_vars

QuotaRejectionAfterResetRolledBackSeen ==
    \E q \in Reqs :
        /\ qpc[q] = "rolled_back"
        /\ error[q] = "quota"
        /\ obj[q].daily_used = 0
        /\ CommittedRow(quser[q]).daily_used > 0

\* ------------------------------------------------------------------------
\* Properties of the two throttle counters under failures and concurrency
\* ------------------------------------------------------------------------

\* in this step the call of p ends
CallEnds(p) == pc[p] \notin Terminal \cup {"idle"} /\ pc'[p] \in Terminal

\* when the step is taken the INCR of the minute key of p's call has taken
\* effect (earlier, or in this very step)
MinuteIncremented(p) ==
    \/ pc[p] \in {"expire_minute", "incr_hour", "expire_hour", "post_minute",
                  "post_hour"}
    \/ pc[p] = "incr_minute" /\ incrs' # incrs

\* the same for the INCR of the hour key
HourIncremented(p) ==
    \/ pc[p] \in {"expire_hour", "post_minute", "post_hour"}
    \/ pc[p] = "incr_hour" /\ incrs' # incrs

\* C24: for an allowed check_and_increment the minute increment and the
\* hour increment take effect together: no call ends, by a store failure
\* between the two increments or otherwise, with its minute counter
\* incremented and its hour counter not.
MinuteAndHourIncrementTogether ==
    [][\A p \in Procs :
          (CallEnds(p) /\ MinuteIncremented(p)) => HourIncremented(p)]_vars

\* the increment that created key k is still running: its caller is about
\* to issue the EXPIRE
ExpirePending(k) ==
    \E p \in Procs :
        /\ key[p] = k
        /\ pc[p] \in {"expire_minute", "expire_hour"}

\* C25: the TTL of a throttle counter is set atomically with its first
\* increment: once the increment that created a key has ended, normally or
\* by a failure between its INCR and its EXPIRE, the key never holds a
\* count without an expiry.
CountedKeyHasExpiry ==
    \A k \in DOMAIN redis :
        ExpiryOf(redis, k) = NoExpiry => ExpirePending(k)

\* C26: with at most K calls of check_and_increment for one user in flight
\* at a time (K = NumProcs), the minute counter of a bucket never exceeds
\* minute_limit + K - 1 and the hour counter never exceeds
\* hour_limit + K - 1: a caller increments only after it has read both
\* counts below their limits.
OvershootBoundedByCallers ==
    /\ \A k \in DOMAIN redis :
          redis[k].val <= GetLimitForPeriod(k[2]) + NumProcs - 1
    /\ \A p \in Procs :
          pc[p] \in WriteSteps => pre[p].minute_allowed /\ pre[p].hour_allowed

LargestOvershootSeen ==
    \E k \in DOMAIN redis :
        /\ k[2] = MINUTE
        /\ redis[k].val = RATE_LIMIT_PER_MINUTE + NumProcs - 1

\* the count a GET of key k reads
CountOf(store, k) == IF k \in DOMAIN store THEN store[k].val ELSE 0

\* C27: apart from an administrative reset, the count read for a (user,
\* period, bucket) key never decreases while the clock stays inside that
\* bucket: the TTL set on the first increment cannot elapse before the
\* bucket ends.
CountNeverDecreasesInsideBucket ==
    [][\A u \in Users, period \in {MINUTE, HOUR} :
          LET k == GetRateLimitKey(u, period, now)
          IN (GetRateLimitKey(u, period, now') = k /\ resets' = resets) =>
                 CountOf(redis', k) >= CountOf(redis, k)]_vars

ClockAdvancedInsideCountedHourSeen ==
    \E k \in DOMAIN redis :
        /\ k[2] = HOUR
        /\ k[3] = TimeWindow(HOUR, now)
        /\ redis[k].exp # NoExpiry
        /\ redis[k].exp - GetTTLForPeriod(HOUR) >= StartTime
        /\ redis[k].exp - GetTTLForPeriod(HOUR) < now

\* C29: as long as the history is not bulk-deleted, the persisted
\* total_requests of a user equals the number of persisted history records
\* of that user, for every interleaving of the user's requests.
TotalRequestsEqualsHistory ==
    /\ \A r \in user_limits : r.total_requests = history
    /\ (user_limits = {} => history = 0)

\* every version of the user's quota row: the persisted one and the ones
\* written in the sessions of running requests
QuotaRows == user_limits \cup {txrow[q] : q \in {r \in Reqs : txrow[r] # NoRow}}

\* C30 as stated: in every reachable state of a user's quota
\* daily_used <= monthly_used <= total_requests.
CountersOrdered ==
    \A r \in QuotaRows :
        r.daily_used <= r.monthly_used /\ r.monthly_used <= r.total_requests

\* C30, amended: in every reachable state of a user's quota
\* daily_used <= total_requests and monthly_used <= total_requests: every
\* increment raises the three counters together, and the daily and monthly
\* resets, which fire independently at their own lazily advanced deadlines,
\* only lower daily_used or monthly_used.
UsageWithinTotal ==
    \A r \in QuotaRows :
        r.daily_used <= r.total_requests /\ r.monthly_used <= r.total_requests

MonthlyResetBelowDailySeen ==
    \E r \in user_limits :
        /\ r.daily_used > r.monthly_used
        /\ r.monthly_reset_at > MONTH_DAYS * DAY_SECONDS
        /\ r.daily_reset_at > now

====
